---- MODULE Spec2Model ----
(***************************************************************************)
(* my-sudt: the simple-UDT type script (contracts/my-sudt/src/main.rs).    *)
(*                                                                         *)
(* One behaviour is one invocation of main() on one transaction.  The      *)
(* transaction (script args, lock hashes of the inputs, data of the group  *)
(* inputs and group outputs, and the signals the host answers with) is     *)
(* fixed by Init; the actions are the steps of main(), one per syscall.    *)
(*                                                                         *)
(* Bytes are 0..255, byte strings are sequences.  A u128 is eight 16-bit   *)
(* limbs, least significant first, so the full 128-bit width is kept.      *)
(***************************************************************************)
EXTENDS Integers, Sequences, FiniteSets, TLC

\* ---------------------------------------------------------------- bounds

\* Most inputs of the transaction (Source::Input).
MaxInputs == 2
\* Most cells of the script group on the input side (Source::GroupInput).
MaxGroupInputs == 2
\* Most cells of the script group on the output side (Source::GroupOutput).
MaxGroupOutputs == 2

\* ------------------------------------------------------ program constants

BUF_LEN == 1024
UDT_LEN == 16
\* The buffer of check_owner_mode: [0u8; 32].
HASH_LEN == 32
\* A serialized Script with empty args: 16 bytes of table header, 32 of
\* code_hash, 1 of hash_type and the 4-byte length of args.
SCRIPT_FIXED_LEN == 53

\* ------------------------------------------------------------ byte strings

Rep(b, n) == [k \in 1..n |-> b]

\* What a syscall leaves in buf: the first bytes are overwritten by as much
\* of the data as fits, the rest keeps its old content.
Overlay(buf, data) ==
    [k \in 1..Len(buf) |-> IF k <= Len(data) THEN data[k] ELSE buf[k]]

\* ------------------------------------------------------------------- u128

LimbBase == 65536
NumLimbs == 8
Limbs == 1..NumLimbs

ZeroU128 == [k \in Limbs |-> 0]

\* u128::from_le_bytes: byte 1 is the least significant.
from_le_bytes(buf) == [k \in Limbs |-> buf[2 * k - 1] + 256 * buf[2 * k]]

RECURSIVE CarryOut(_, _, _)
CarryOut(a, b, k) ==
    IF k = 0 THEN 0 ELSE (a[k] + b[k] + CarryOut(a, b, k - 1)) \div LimbBase

\* a + b reduced modulo 2^128.
wrapping_add(a, b) ==
    [k \in Limbs |-> (a[k] + b[k] + CarryOut(a, b, k - 1)) % LimbBase]

\* Whether a + b does not fit in 128 bits.
overflows(a, b) == CarryOut(a, b, NumLimbs) = 1

\* a < b on u128.
LessU128(a, b) ==
    \E k \in Limbs : a[k] < b[k] /\ \A j \in (k + 1)..NumLimbs : a[j] = b[j]

\* ------------------------------------------------------------ error kinds

\* enum Error, #[repr(i8)]: the discriminants count up from 1.
ErrorCodeFromZero(e) ==
    CASE e = "IndexOutOfBound" -> 0
      [] e = "ItemMissing" -> 1
      [] e = "LengthNotEnough" -> 2
      [] e = "Encoding" -> 3
      [] e = "Amount" -> 4

ErrorCode(e) ==
    CASE e = "IndexOutOfBound" -> 1
      [] e = "ItemMissing" -> 2
      [] e = "LengthNotEnough" -> 3
      [] e = "Encoding" -> 4
      [] e = "Amount" -> 5

\* impl From<SysError> for Error; "panic" is the panic! of the Unknown arm.
FromSysErrorAsExhausted(err) ==
    CASE err = "IndexOutOfBound" -> "IndexOutOfBound"
      [] err = "ItemMissing" -> "IndexOutOfBound"
      [] err = "LengthNotEnough" -> "LengthNotEnough"
      [] err = "Unknown" -> "panic"

FromSysError(err) ==
    CASE err = "IndexOutOfBound" -> "IndexOutOfBound"
      [] err = "ItemMissing" -> "ItemMissing"
      [] err = "LengthNotEnough" -> "LengthNotEnough"
      [] err = "Unknown" -> "panic"

\* ------------------------------------------------------------------- host

\* A cell as the host answers a read of it: with its bytes, or with a signal.
Cell(sig, bytes) == [sig |-> sig, bytes |-> bytes]

\* The result of a load_* syscall on a buffer of cap bytes (ckb-std's
\* Result<usize, SysError>): Ok(len) only when the data fits the buffer.
SysResult(sig, data, cap) ==
    IF sig # "Ok" THEN [kind |-> sig, len |-> 0, data |-> <<>>]
    ELSE IF Len(data) > cap
         THEN [kind |-> "LengthNotEnough", len |-> Len(data), data |-> SubSeq(data, 1, cap)]
         ELSE [kind |-> "Ok", len |-> Len(data), data |-> data]

\* load_cell_by_field / load_cell_data at offset 0, index idx of a source.
LoadCell(cells, idx, cap) ==
    IF idx >= Len(cells)
    THEN [kind |-> "IndexOutOfBound", len |-> 0, data |-> <<>>]
    ELSE SysResult(cells[idx + 1].sig, cells[idx + 1].bytes, cap)

\* The length of the serialized Script whose args are a.
ScriptLen(a) == SCRIPT_FIXED_LEN + Len(a)

\* load_script into a buffer of cap bytes; the data is the args field.
LoadScriptResult(a, cap) ==
    IF ScriptLen(a) > cap
    THEN [kind |-> "LengthNotEnough", len |-> ScriptLen(a), data |-> <<>>]
    ELSE [kind |-> "Ok", len |-> ScriptLen(a), data |-> a]

\* ------------------------------------------------------- the transactions

OwnerHash == Rep(170, HASH_LEN)
OtherHash == Rep(187, HASH_LEN)

\* Script args: the owner's lock hash, a proper prefix of it, nothing, the
\* hash with a byte after it, and args that push the Script over BUF_LEN.
ArgsSet ==
    { OwnerHash,
      Rep(170, HASH_LEN - 1),
      <<>>,
      Rep(170, HASH_LEN + 1),
      Rep(170, BUF_LEN - SCRIPT_FIXED_LEN + 1) }

\* What a read of an input's lock hash can meet.
LockCells ==
    { Cell("Ok", OwnerHash),
      Cell("Ok", OtherHash),
      Cell("Ok", Rep(170, HASH_LEN - 1)),
      Cell("Ok", Rep(170, HASH_LEN + 1)),
      Cell("ItemMissing", <<>>),
      Cell("Unknown", <<>>) }

\* The amounts 1 and 2^127 in 16 little-endian bytes.
AmountOne == <<1>> \o Rep(0, UDT_LEN - 1)
AmountHigh == Rep(0, UDT_LEN - 1) \o <<128>>

\* What a read of a group cell's data can meet.
DataCells ==
    { Cell("Ok", AmountOne),
      Cell("Ok", AmountHigh),
      Cell("Ok", Rep(7, UDT_LEN - 6)),
      Cell("Ok", Rep(7, UDT_LEN + 1)),
      Cell("ItemMissing", <<>>),
      Cell("Unknown", <<>>) }

SeqsUpTo(S, n) == UNION { [1..m -> S] : m \in 0..n }

\* ------------------------------------------------------------------ state

VARIABLES
    script_args,     \* host: the args of the running script
    inputs,          \* host: the inputs' lock hashes (Source::Input)
    group_inputs,    \* host: data of the group's inputs (Source::GroupInput)
    group_outputs,   \* host: data of the group's outputs (Source::GroupOutput)
    pc,              \* where main() is
    args,            \* check: args
    i,               \* the running scan's index
    buf,             \* the running scan's buffer
    inputs_amount,   \* collect_inputs_amount's total, then check's
    outputs_amount,  \* collect_outputs_amount's total, then check's
    owner_mode,      \* what check_owner_mode returned
    check_result,    \* what check() returned
    status,          \* what main() returned
    reads            \* the syscalls made so far, in order

host == <<script_args, inputs, group_inputs, group_outputs>>
vars == <<script_args, inputs, group_inputs, group_outputs, pc, args, i, buf,
          inputs_amount, outputs_amount, owner_mode, check_result, status, reads>>

NoStatus == -1

Read(src, idx, r) == [src |-> src, index |-> idx, kind |-> r.kind, len |-> r.len]

\* main() at its entry: nothing loaded, nothing read, nothing returned.
Entry ==
    /\ pc = "load_script"
    /\ args = <<>>
    /\ i = 0
    /\ buf = <<>>
    /\ inputs_amount = ZeroU128
    /\ outputs_amount = ZeroU128
    /\ owner_mode = "unset"
    /\ check_result = "none"
    /\ status = NoStatus
    /\ reads = <<>>

Init ==
    /\ script_args \in ArgsSet
    /\ inputs \in SeqsUpTo(LockCells, MaxInputs)
    /\ group_inputs \in SeqsUpTo(DataCells, MaxGroupInputs)
    /\ group_outputs \in SeqsUpTo(DataCells, MaxGroupOutputs)
    /\ Entry

\* check() returns r: main() has its result next.
Return(r) ==
    /\ check_result' = r
    /\ pc' = "return"

\* An Err(err) of a syscall leaves through err.into(): the Error, or a panic.
Fail(err) ==
    IF FromSysError(err) = "panic"
    THEN pc' = "aborted" /\ UNCHANGED check_result
    ELSE Return(FromSysError(err))


\* ------------------------------------------------------- check_owner_mode

\* args[..] == buf[..]: slices are equal when their lengths and bytes are.
SliceEqNever(a, b) == FALSE

SliceEqPrefix(a, b) ==
    /\ Len(a) <= Len(b)
    /\ \A k \in 1..Len(a) : a[k] = b[k]

SliceEq(a, b) ==
    /\ Len(a) = Len(b)
    /\ \A k \in 1..Len(a) : a[k] = b[k]

\* len != buf.len(), len != UDT_LEN: the loaded length is not the wanted one.
BadLenLongOnly(len, want) == len > want

BadLen(len, want) == len # want

\* i += 1
NextIndexStuck(n) == n

NextIndex(n) == n + 1

\* One pass of the loop of check_owner_mode on the read result r, with the
\* buffer b the read left: "true", "false", "next", or the Error returned.
OwnerPassNoLenCheck(r, a, b) ==
    CASE r.kind = "IndexOutOfBound" -> "false"
      [] r.kind \notin {"Ok", "IndexOutOfBound"} -> FromSysError(r.kind)
      [] r.kind = "Ok" /\ SliceEq(a, b) -> "true"
      [] OTHER -> "next"

OwnerPassNoShortCircuit(r, a, b) ==
    CASE r.kind = "IndexOutOfBound" -> "false"
      [] r.kind \notin {"Ok", "IndexOutOfBound"} -> FromSysError(r.kind)
      [] r.kind = "Ok" /\ BadLen(r.len, Len(b)) -> "Encoding"
      [] OTHER -> "next"

OwnerPass(r, a, b) ==
    CASE r.kind = "IndexOutOfBound" -> "false"
      [] r.kind \notin {"Ok", "IndexOutOfBound"} -> FromSysError(r.kind)
      [] r.kind = "Ok" /\ BadLen(r.len, Len(b)) -> "Encoding"
      [] r.kind = "Ok" /\ SliceEq(a, b) -> "true"
      [] OTHER -> "next"

\* check(): if check_owner_mode(&args)? { return Ok(()) }, else the amounts.
CheckBranchNoBypass(is_owner) == "collect_inputs_amount"

CheckBranch(is_owner) ==
    IF is_owner THEN "return" ELSE "collect_inputs_amount"

\* ---------------------------------------------------------------- actions

\* check(): load_script into [0u8; BUF_LEN], then script.args().unpack().
check_script ==
    /\ pc = "load_script"
    /\ LET r == LoadScriptResult(script_args, BUF_LEN) IN
       /\ reads' = Append(reads, Read("Script", 0, r))
       /\ IF r.kind = "Ok"
          THEN /\ args' = r.data
               /\ pc' = "check_owner_mode"
               /\ i' = 0
               /\ buf' = Rep(0, HASH_LEN)
               /\ UNCHANGED check_result
          ELSE /\ Fail(r.kind)
               /\ UNCHANGED <<args, i, buf>>
    /\ UNCHANGED <<host, inputs_amount, outputs_amount, owner_mode, status>>

\* Entering collect_inputs_amount: inputs_amount = 0, i = 0, buf = [0; 16].
EnterCollectInputs ==
    /\ pc' = "collect_inputs_amount"
    /\ i' = 0
    /\ buf' = Rep(0, UDT_LEN)
    /\ inputs_amount' = ZeroU128
    /\ UNCHANGED check_result

\* One pass of the loop of check_owner_mode, and on its return the branch
\* of check() on the result.
check_owner_mode ==
    /\ pc = "check_owner_mode"
    /\ LET r == LoadCell(inputs, i, HASH_LEN)
           b == Overlay(buf, r.data)
           res == OwnerPass(r, args, b)
       IN
       /\ reads' = Append(reads, Read("Input", i, r))
       /\ CASE res = "next" ->
                 /\ i' = NextIndex(i)
                 /\ buf' = b
                 /\ UNCHANGED <<pc, owner_mode, check_result, inputs_amount>>
            [] res \in {"true", "false"} ->
                 /\ owner_mode' = res
                 /\ IF CheckBranch(res = "true") = "return"
                    THEN /\ Return("Ok")
                         /\ buf' = b
                         /\ UNCHANGED <<i, inputs_amount>>
                    ELSE EnterCollectInputs
            [] res = "panic" ->
                 /\ pc' = "aborted"
                 /\ buf' = b
                 /\ UNCHANGED <<i, owner_mode, check_result, inputs_amount>>
            [] OTHER ->
                 /\ owner_mode' = "error"
                 /\ Return(res)
                 /\ buf' = b
                 /\ UNCHANGED <<i, inputs_amount>>
    /\ UNCHANGED <<host, args, outputs_amount, status>>

\* total += amount on u128: the sum when it fits; when it does not, a panic
\* with overflow checks compiled in and the sum modulo 2^128 without them.
AddAssign(total, amount, new_total, panicked) ==
    IF overflows(total, amount)
    THEN \/ panicked /\ new_total = total
         \/ ~panicked /\ new_total = wrapping_add(total, amount)
    ELSE ~panicked /\ new_total = wrapping_add(total, amount)

\* One pass of the loop of collect_inputs_amount; at its break, check()
\* goes on to collect_outputs_amount.
collect_inputs_amount ==
    /\ pc = "collect_inputs_amount"
    /\ LET r == LoadCell(group_inputs, i, UDT_LEN)
           b == Overlay(buf, r.data)
       IN
       /\ reads' = Append(reads, Read("GroupInput", i, r))
       /\ CASE r.kind = "IndexOutOfBound" ->
                 /\ pc' = "collect_outputs_amount"
                 /\ i' = 0
                 /\ buf' = Rep(0, UDT_LEN)
                 /\ outputs_amount' = ZeroU128
                 /\ UNCHANGED <<inputs_amount, check_result>>
            [] r.kind \notin {"Ok", "IndexOutOfBound"} ->
                 /\ Fail(r.kind)
                 /\ buf' = b
                 /\ UNCHANGED <<i, inputs_amount, outputs_amount>>
            [] r.kind = "Ok" /\ BadLen(r.len, UDT_LEN) ->
                 /\ Return("Encoding")
                 /\ buf' = b
                 /\ UNCHANGED <<i, inputs_amount, outputs_amount>>
            [] OTHER ->
                 /\ buf' = b
                 /\ \E panicked \in BOOLEAN :
                      /\ AddAssign(inputs_amount, from_le_bytes(b), inputs_amount', panicked)
                      /\ IF panicked
                         THEN pc' = "aborted" /\ UNCHANGED i
                         ELSE i' = NextIndex(i) /\ UNCHANGED pc
                 /\ UNCHANGED <<outputs_amount, check_result>>
    /\ UNCHANGED <<host, args, owner_mode, status>>

\* One pass of the loop of collect_outputs_amount; at its break, check()
\* has both totals.
collect_outputs_amount ==
    /\ pc = "collect_outputs_amount"
    /\ LET r == LoadCell(group_outputs, i, UDT_LEN)
           b == Overlay(buf, r.data)
       IN
       /\ reads' = Append(reads, Read("GroupOutput", i, r))
       /\ CASE r.kind = "IndexOutOfBound" ->
                 /\ pc' = "compare"
                 /\ UNCHANGED <<i, buf, outputs_amount, check_result>>
            [] r.kind \notin {"Ok", "IndexOutOfBound"} ->
                 /\ Fail(r.kind)
                 /\ buf' = b
                 /\ UNCHANGED <<i, outputs_amount>>
            [] r.kind = "Ok" /\ BadLen(r.len, UDT_LEN) ->
                 /\ Return("Encoding")
                 /\ buf' = b
                 /\ UNCHANGED <<i, outputs_amount>>
            [] OTHER ->
                 /\ buf' = b
                 /\ \E panicked \in BOOLEAN :
                      /\ AddAssign(outputs_amount, from_le_bytes(b), outputs_amount', panicked)
                      /\ IF panicked
                         THEN pc' = "aborted" /\ UNCHANGED i
                         ELSE i' = NextIndex(i) /\ UNCHANGED pc
                 /\ UNCHANGED check_result
    /\ UNCHANGED <<host, args, inputs_amount, owner_mode, status>>

\* check(): if inputs_amount < outputs_amount { return Err(Error::Amount) }
check_amounts ==
    /\ pc = "compare"
    /\ IF LessU128(inputs_amount, outputs_amount)
       THEN Return("Amount")
       ELSE Return("Ok")
    /\ UNCHANGED <<host, args, i, buf, inputs_amount, outputs_amount,
                   owner_mode, status, reads>>

\* main(): Ok(_) => 0, Err(err) => err as i8.
main ==
    /\ pc = "return"
    /\ status' = IF check_result = "Ok" THEN 0 ELSE ErrorCode(check_result)
    /\ pc' = "done"
    /\ UNCHANGED <<host, args, i, buf, inputs_amount, outputs_amount,
                   owner_mode, check_result, reads>>

Next ==
    \/ check_script
    \/ check_owner_mode
    \/ collect_inputs_amount
    \/ collect_outputs_amount
    \/ check_amounts
    \/ main

Spec == Init /\ [][Next]_vars

\* The transactions whose cells are one of each way a pass of a scan ends:
\* on to the next index, a return, an Error, a panic.
ScanLockCells ==
    { Cell("Ok", OwnerHash),
      Cell("Ok", OtherHash),
      Cell("Ok", Rep(170, HASH_LEN - 1)),
      Cell("Unknown", <<>>) }

ScanDataCells ==
    { Cell("Ok", AmountOne),
      Cell("Ok", AmountHigh),
      Cell("Ok", Rep(7, UDT_LEN - 6)),
      Cell("Unknown", <<>>) }

InitScan ==
    /\ script_args \in ArgsSet
    /\ inputs \in SeqsUpTo(ScanLockCells, MaxInputs)
    /\ group_inputs \in SeqsUpTo(ScanDataCells, MaxGroupInputs)
    /\ group_outputs \in SeqsUpTo(ScanDataCells, MaxGroupOutputs)
    /\ Entry

\* main() is one synchronous call that the VM runs to its end: a step that
\* can be taken is taken.
FairSpec == InitScan /\ [][Next]_vars /\ WF_vars(Next)


\* ------------------------------------------------- vocabulary of the claims

Terminal == pc \in {"done", "aborted"}

LastRead == reads[Len(reads)]

ReadsOf(src) == SelectSeq(reads, LAMBDA r : r.src = src)

\* Input k (from 1) answers a read with a full lock hash.
FullHash(k) == inputs[k].sig = "Ok" /\ Len(inputs[k].bytes) = HASH_LEN

\* Input k answers a read with a full lock hash equal to the script's args.
OwnerAt(k) == FullHash(k) /\ inputs[k].bytes = script_args

\* Some input cell's lock hash equals the script's args.
HasOwnerInput == \E k \in 1..Len(inputs) : OwnerAt(k)

\* A group cell that answers with a payload of n bytes, n # 16.
Malformed(c) == c.sig = "Ok" /\ Len(c.bytes) # UDT_LEN

WellFormed(c) == c.sig = "Ok" /\ Len(c.bytes) = UDT_LEN

AllWellFormed(cells) == \A k \in 1..Len(cells) : WellFormed(cells[k])

\* The host answers every read of the run with well-formed data.
CleanHost ==
    /\ ScriptLen(script_args) <= BUF_LEN
    /\ \A k \in 1..Len(inputs) : FullHash(k)
    /\ AllWellFormed(group_inputs)
    /\ AllWellFormed(group_outputs)

\* Natural numbers below 2^144 as nine limbs: room for the true sums.
ExtLimbs == 1..(NumLimbs + 1)

PayloadValue(bytes) ==
    [k \in ExtLimbs |-> IF k <= NumLimbs THEN bytes[2 * k - 1] + 256 * bytes[2 * k] ELSE 0]

Ext(x) == [k \in ExtLimbs |-> IF k <= NumLimbs THEN x[k] ELSE 0]

AddExt(a, b) == [k \in ExtLimbs |-> (a[k] + b[k] + CarryOut(a, b, k - 1)) % LimbBase]

LessExt(a, b) ==
    \E k \in ExtLimbs : a[k] < b[k] /\ \A j \in (k + 1)..(NumLimbs + 1) : a[j] = b[j]

RECURSIVE TrueSum(_, _)
TrueSum(cells, n) ==
    IF n = 0 THEN Ext(ZeroU128)
    ELSE AddExt(TrueSum(cells, n - 1), PayloadValue(cells[n].bytes))

TrueInputs == TrueSum(group_inputs, Len(group_inputs))
TrueOutputs == TrueSum(group_outputs, Len(group_outputs))


\* --------------------------------------------------------------------- C1

\* C1 as stated: in every transaction with an input cell whose lock hash
\* equals the script's args, main returns status 0.
C1_OwnerBypassAsStated ==
    (pc = "done" /\ HasOwnerInput) => status = 0

\* C1, amended: when some input reads as the full 32-byte lock hash equal to
\* the script's args and every input before it reads as a full 32-byte hash,
\* the invocation never aborts or rejects and ends with status 0, whatever
\* the group cells hold.
C1_OwnerBypass ==
    (\E m \in 1..Len(inputs) : OwnerAt(m) /\ \A k \in 1..(m - 1) : FullHash(k))
        => /\ pc # "aborted"
           /\ check_result \in {"none", "Ok"}
           /\ pc = "done" => status = 0

\* An owner-mode run accepted although the group's outputs hold 2^127 and
\* its inputs nothing, the owner's input being the second one.
C1_Witness ==
    /\ pc = "done"
    /\ status = 0
    /\ Len(inputs) = 2
    /\ ~OwnerAt(1)
    /\ OwnerAt(2)
    /\ group_inputs = <<>>
    /\ group_outputs = <<Cell("Ok", AmountHigh)>>

\* --------------------------------------------------------------------- C2

\* C2: with no input whose lock hash equals the args, and a host that
\* answers every read with well-formed data, a returned status is 0 exactly
\* when the sum of the group inputs' amounts is at least the sum of the
\* group outputs' amounts, and is 5 otherwise.
C2_Conservation ==
    (pc = "done" /\ ~HasOwnerInput /\ CleanHost)
        => /\ status = 0 <=> ~LessExt(TrueInputs, TrueOutputs)
           /\ status # 0 => status = 5

\* --------------------------------------------------------------------- C3

\* The last read met a group cell that answers with a payload of a length
\* other than 16 bytes.
MetMalformed ==
    /\ reads # <<>>
    /\ \/ /\ LastRead.src = "GroupInput"
          /\ LastRead.index < Len(group_inputs)
          /\ Malformed(group_inputs[LastRead.index + 1])
       \/ /\ LastRead.src = "GroupOutput"
          /\ LastRead.index < Len(group_outputs)
          /\ Malformed(group_outputs[LastRead.index + 1])

MetPayloadLen ==
    IF LastRead.src = "GroupInput"
    THEN Len(group_inputs[LastRead.index + 1].bytes)
    ELSE Len(group_outputs[LastRead.index + 1].bytes)

\* C3 as stated: a scan that meets a group cell whose payload is not 16
\* bytes long, shorter or longer, ends check() with Encoding (status 4).
C3_MalformedAsStated ==
    MetMalformed
        => /\ check_result = "Encoding"
           /\ pc = "done" => status = 4

\* C3, amended: a scan that meets a group cell whose payload is shorter than
\* 16 bytes ends check() at once with Encoding (status 4), one whose payload
\* is longer than 16 bytes with LengthNotEnough (status 3); and in non-owner
\* mode a transaction with any such group cell is never accepted.
C3_Malformed ==
    /\ MetMalformed
         => /\ pc \in {"return", "done"}
            /\ check_result = IF MetPayloadLen < UDT_LEN THEN "Encoding" ELSE "LengthNotEnough"
            /\ pc = "done" => status = IF MetPayloadLen < UDT_LEN THEN 4 ELSE 3
    /\ ( /\ owner_mode = "false"
         /\ \/ \E k \in 1..Len(group_inputs) : Malformed(group_inputs[k])
            \/ \E k \in 1..Len(group_outputs) : Malformed(group_outputs[k]) )
         => check_result # "Ok" /\ status # 0

\* A run rejected with status 3 at a 17-byte payload of the second group
\* output, after a well-formed group input and group output.
C3_Witness ==
    /\ pc = "done"
    /\ status = 3
    /\ MetMalformed
    /\ LastRead.src = "GroupOutput"
    /\ LastRead.index = 1
    /\ MetPayloadLen > UDT_LEN
    /\ Len(group_inputs) > 0

\* --------------------------------------------------------------------- C4

\* C4: over well-formed group cells each aggregator returns the true sum of
\* the amounts, not that sum modulo 2^128, and no returned status is 0 in
\* non-owner mode when the true total of the outputs exceeds that of the
\* inputs.
C4_NoWrapAround ==
    (AllWellFormed(group_inputs) /\ AllWellFormed(group_outputs))
        => /\ (pc = "collect_outputs_amount" /\ i = 0)
                => Ext(inputs_amount) = TrueInputs
           /\ pc = "compare" => Ext(outputs_amount) = TrueOutputs
           /\ (pc = "done" /\ owner_mode = "false" /\ LessExt(TrueInputs, TrueOutputs))
                => status # 0


\* --------------------------------------------------------------------- C5

\* C5: a read that fails with ItemMissing or LengthNotEnough is the last
\* read, check() returns that very kind and main its code (2 or 3); a Script
\* over BUF_LEN bytes gives LengthNotEnough (3) at the first read; and the
\* IndexOutOfBound that ends a scan is never what check() or main returns.
C5_FailurePropagation ==
    /\ \A k \in 1..Len(reads) :
         reads[k].kind \in {"ItemMissing", "LengthNotEnough"}
           => /\ k = Len(reads)
              /\ pc \in {"return", "done"}
              /\ check_result = reads[k].kind
              /\ pc = "done" => status = IF reads[k].kind = "ItemMissing" THEN 2 ELSE 3
    /\ (ScriptLen(script_args) > BUF_LEN /\ pc # "load_script")
         => /\ Len(reads) = 1
            /\ check_result = "LengthNotEnough"
            /\ pc = "done" => status = 3
    /\ check_result # "IndexOutOfBound"
    /\ status # 1
    /\ (reads # <<>> /\ LastRead.kind = "IndexOutOfBound")
         => /\ pc # "aborted"
            /\ check_result \in {"none", "Ok", "Amount"}

\* A run rejected with status 2 by an ItemMissing at the second group
\* output, after both earlier scans ended at their IndexOutOfBound.
C5_Witness ==
    /\ pc = "done"
    /\ status = 2
    /\ LastRead.src = "GroupOutput"
    /\ LastRead.index = 1
    /\ LastRead.kind = "ItemMissing"
    /\ Len(ReadsOf("Input")) = 2

\* --------------------------------------------------------------------- C6

\* C6: main returns 0 exactly when check() returned Ok and otherwise the
\* code of the table (1 IndexOutOfBound, 2 ItemMissing, 3 LengthNotEnough,
\* 4 Encoding, 5 Amount), so a returned status is in 0..5; a read answered
\* with an unrecognized signal aborts, and then no status is returned.
C6_StatusAbi ==
    /\ pc = "done"
         => /\ status \in 0..5
            /\ status = 0 <=> check_result = "Ok"
            /\ status = 1 <=> check_result = "IndexOutOfBound"
            /\ status = 2 <=> check_result = "ItemMissing"
            /\ status = 3 <=> check_result = "LengthNotEnough"
            /\ status = 4 <=> check_result = "Encoding"
            /\ status = 5 <=> check_result = "Amount"
    /\ pc # "done" => status = NoStatus
    /\ (reads # <<>> /\ LastRead.kind = "Unknown")
         => /\ pc = "aborted"
            /\ check_result = "none"
            /\ status = NoStatus

\* A run that returned 5: the group's outputs sum to more than its inputs.
C6_Witness ==
    /\ pc = "done"
    /\ status = 5
    /\ check_result = "Amount"
    /\ owner_mode = "false"

\* --------------------------------------------------------------------- C7

\* C7: check_owner_mode reads the inputs' lock hashes at 0, 1, 2, ... in
\* order; it returns true at the first input whose 32-byte hash equals the
\* args and reads none after it; it returns false when, no input matching,
\* the read past the last input signals IndexOutOfBound; and a read that
\* succeeds with fewer than 32 bytes makes it return Encoding.
C7_OwnerScan ==
    LET rs == ReadsOf("Input")
        n == Len(rs)
    IN
    /\ \A k \in 1..n : rs[k].index = k - 1
    /\ \A k \in 1..(n - 1) : rs[k].kind = "Ok" /\ rs[k].len = HASH_LEN /\ ~OwnerAt(k)
    /\ owner_mode = "true"
         <=> (n > 0 /\ n <= Len(inputs) /\ OwnerAt(n) /\ args = script_args)
    /\ owner_mode = "false"
         <=> (n = Len(inputs) + 1 /\ rs[n].kind = "IndexOutOfBound")
    /\ (n > 0 /\ rs[n].kind = "Ok" /\ rs[n].len < HASH_LEN)
         => /\ owner_mode = "error"
            /\ check_result = "Encoding"

\* The owner's hash is at input 0 of two: true after a single read.
C7_Witness ==
    /\ owner_mode = "true"
    /\ Len(inputs) = 2
    /\ Len(ReadsOf("Input")) = 1
    /\ pc = "done"

\* --------------------------------------------------------------------- C8

\* C8: with args that are not 32 bytes long check_owner_mode never returns
\* true, whatever the inputs are; an accepted run then went through the
\* comparison of the amounts.
C8_ArgsLength ==
    Len(script_args) # HASH_LEN
        => /\ owner_mode # "true"
           /\ check_result = "Ok"
                => /\ ReadsOf("GroupOutput") # <<>>
                   /\ LastRead.kind = "IndexOutOfBound"
                   /\ ~LessU128(inputs_amount, outputs_amount)

\* Args of 31 bytes that are a prefix of the first input's lock hash: the
\* scan went past that input and returned false.
C8_Witness ==
    /\ Len(script_args) = HASH_LEN - 1
    /\ Len(inputs) > 0
    /\ FullHash(1)
    /\ SubSeq(inputs[1].bytes, 1, HASH_LEN - 1) = script_args
    /\ owner_mode = "false"
    /\ pc = "done"

\* --------------------------------------------------------------------- C9

StageOf(src) ==
    CASE src = "Script" -> 0
      [] src = "Input" -> 1
      [] src = "GroupInput" -> 2
      [] src = "GroupOutput" -> 3

\* C9: the reads are the Script, then the inputs' lock hashes, then the
\* group inputs' data, then the group outputs' data; group data is read
\* only after check_owner_mode returned false, group outputs only after the
\* scan of the group inputs ended at IndexOutOfBound, and after
\* check_owner_mode returned true no group data is read and check() is Ok.
C9_StageOrder ==
    /\ \A k \in 1..Len(reads) : reads[k].src = "Script" <=> k = 1
    /\ \A j, k \in 1..Len(reads) : j < k => StageOf(reads[j].src) <= StageOf(reads[k].src)
    /\ ReadsOf("GroupInput") # <<>> => owner_mode = "false"
    /\ ReadsOf("GroupOutput") # <<>>
         => /\ owner_mode = "false"
            /\ \E k \in 1..Len(reads) :
                 reads[k].src = "GroupInput" /\ reads[k].kind = "IndexOutOfBound"
    /\ owner_mode = "true"
         => /\ ReadsOf("GroupInput") = <<>>
            /\ ReadsOf("GroupOutput") = <<>>
            /\ check_result = "Ok"

\* An owner-mode run that returned 0 with a 10-byte payload in the group.
C9_Witness ==
    /\ pc = "done"
    /\ status = 0
    /\ owner_mode = "true"
    /\ Len(group_inputs) > 0
    /\ Malformed(group_inputs[1])

\* -------------------------------------------------------------------- C10

\* The passes main() has left at most: the stages ahead and, in a scan, the
\* cells ahead with the read that ends it.
Rank ==
    CASE pc = "load_script" ->
           7 + Len(inputs) + Len(group_inputs) + Len(group_outputs)
      [] pc = "check_owner_mode" ->
           6 + (Len(inputs) - i) + Len(group_inputs) + Len(group_outputs)
      [] pc = "collect_inputs_amount" ->
           5 + (Len(group_inputs) - i) + Len(group_outputs)
      [] pc = "collect_outputs_amount" -> 3 + (Len(group_outputs) - i)
      [] pc = "compare" -> 2
      [] pc = "return" -> 1
      [] OTHER -> 0

SourceLen(src) ==
    CASE src = "Script" -> 0
      [] src = "Input" -> Len(inputs)
      [] src = "GroupInput" -> Len(group_inputs)
      [] src = "GroupOutput" -> Len(group_outputs)

\* Each scan reads the indices 0, 1, ... once each, at most one past the
\* end of its list, and nothing after its IndexOutOfBound.
ScanBounds ==
    \A src \in {"Script", "Input", "GroupInput", "GroupOutput"} :
        LET rs == ReadsOf(src) IN
        /\ Len(rs) <= SourceLen(src) + 1
        /\ \A k \in 1..Len(rs) :
             /\ rs[k].index = k - 1
             /\ rs[k].kind = "IndexOutOfBound" => k = Len(rs)

\* An aggregator over an empty list returned zero.
EmptyIsZero ==
    /\ (group_inputs = <<>> /\ ReadsOf("GroupInput") # <<>>) => inputs_amount = ZeroU128
    /\ (group_outputs = <<>> /\ pc = "compare") => outputs_amount = ZeroU128

\* C10: every invocation ends, done or aborted; each step towards the end
\* lowers a natural-number rank; and every scan keeps within the bounds
\* above, an aggregator over an empty list returning zero.
C10_Termination ==
    /\ <>Terminal
    /\ [](Rank \in Nat /\ (Rank = 0 <=> Terminal))
    /\ [][Rank' < Rank]_vars
    /\ [](ScanBounds /\ EmptyIsZero)

\* A run that made every read it can: 1 + 3 + 3 + 3.
C10_Witness ==
    /\ pc = "done"
    /\ Len(reads) = 4 + MaxInputs + MaxGroupInputs + MaxGroupOutputs

====
